---- MODULE Spec2Model ----
(***************************************************************************)
(* Model of the in-memory todo console application (src/src/todo_app.py).  *)
(* State: the global task_store and next_task_id, the position of the      *)
(* main loop / handler at its next input() call, and the handler's locals. *)
(* Text is a sequence of Unicode code points (97 is "a", 32 the space), so  *)
(* that strip() and the slicing done by the validators are computed, not   *)
(* assumed, and every character str.strip() removes can be written.        *)
(***************************************************************************)
EXTENDS Integers, Sequences, FiniteSets, TLC

VARIABLES task_store, next_task_id, pc, frame, out, issued, deleted

vars == <<task_store, next_task_id, pc, frame, out, issued, deleted>>

(* ---------------------------- bounds ----------------------------------- *)
MaxTasks == 4
MaxTextTasks == 1

(* ------------------------ program constants ---------------------------- *)
MaxTitleLen == 100
MaxDescriptionLen == 500

(* the characters str.strip() removes (str.isspace): TAB LF VT FF CR,      *)
(* FS GS RS US, SPACE, NEL, NBSP, OGHAM SPACE, U+2000..U+200A, LINE and    *)
(* PARAGRAPH SEPARATOR, NARROW NBSP, MEDIUM MATHEMATICAL SPACE,            *)
(* IDEOGRAPHIC SPACE                                                       *)
Whitespace ==
  (9..13) \cup (28..31) \cup {32, 133, 160, 5760} \cup (8192..8202)
    \cup {8232, 8233, 8239, 8287, 12288}

TitleEmptyMsg == "Title cannot be empty"
TitleTruncatedMsg == "Title truncated to 100 characters"
DescriptionTruncatedMsg == "Description truncated to 500 characters"
NoWarning == "None"

(* ------------------------- pure helpers -------------------------------- *)
SetMin(S) == CHOOSE m \in S : \A x \in S : m <= x
SetMax(S) == CHOOSE m \in S : \A x \in S : m >= x

Rep(c, n) == [i \in 1..n |-> c]

(* str.strip(): drop leading and trailing whitespace *)
strip(s) ==
  LET keep == {i \in 1..Len(s) : s[i] \notin Whitespace}
  IN IF keep = {} THEN <<>> ELSE SubSeq(s, SetMin(keep), SetMax(keep))

(* s[:n] *)
slice(s, n) == IF Len(s) > n THEN SubSeq(s, 1, n) ELSE s

(* mutant: over-length titles are kept whole *)
validate_title_notrunc(title) ==
  LET t == strip(title)
  IN IF t = <<>>
       THEN [is_none |-> TRUE, title |-> <<>>, warning |-> "Title cannot be empty"]
       ELSE [is_none |-> FALSE, title |-> t, warning |-> "None"]

(* mutant: the slice is taken first and stripped afterwards *)
validate_title_striplast(title) ==
  IF strip(title) = <<>>
    THEN [is_none |-> TRUE, title |-> <<>>, warning |-> "Title cannot be empty"]
    ELSE IF Len(title) > MaxTitleLen
           THEN [is_none |-> FALSE, title |-> strip(slice(title, MaxTitleLen)),
                 warning |-> "Title truncated to 100 characters"]
           ELSE [is_none |-> FALSE, title |-> strip(title), warning |-> "None"]

validate_title(title) ==
  LET t == strip(title)
  IN IF t = <<>>
       THEN [is_none |-> TRUE, title |-> <<>>, warning |-> TitleEmptyMsg]
       ELSE IF Len(t) > MaxTitleLen
              THEN [is_none |-> FALSE, title |-> slice(t, MaxTitleLen),
                    warning |-> TitleTruncatedMsg]
              ELSE [is_none |-> FALSE, title |-> t, warning |-> NoWarning]

validate_description(description) ==
  IF Len(description) > MaxDescriptionLen
    THEN [description |-> slice(description, MaxDescriptionLen),
          warning |-> DescriptionTruncatedMsg]
    ELSE [description |-> description, warning |-> NoWarning]

(* find_task: <<task>> when present, <<>> (None) otherwise *)
find_task(store, task_id) ==
  IF task_id \in DOMAIN store THEN <<store[task_id]>> ELSE <<>>

(* mutant: ids are listed in descending order *)
RECURSIVE sorted_reverse(_)
sorted_reverse(S) ==
  IF S = {} THEN <<>>
  ELSE LET m == SetMax(S) IN <<m>> \o sorted_reverse(S \ {m})

RECURSIVE sorted(_)
sorted(S) ==
  IF S = {} THEN <<>>
  ELSE LET m == SetMin(S) IN <<m>> \o sorted(S \ {m})

(* "[No description]" *)
NoDescription ==
  <<91, 78, 111, 32, 100, 101, 115, 99, 114, 105, 112, 116, 105, 111, 110, 93>>

shown_description(task) ==
  IF task.description # <<>> THEN task.description ELSE NoDescription

(* what view_tasks prints: one block per task, in the order of sorted ids *)
printed_tasks(store) ==
  LET sorted_ids == sorted(DOMAIN store)
  IN [i \in 1..Len(sorted_ids) |->
        [id |-> store[sorted_ids[i]].id,
         title |-> store[sorted_ids[i]].title,
         description |-> shown_description(store[sorted_ids[i]]),
         status |-> store[sorted_ids[i]].status]]

(* mutant: the status is set to Completed instead of being flipped *)
toggled_complete(status) == "Completed"

toggled(status) == IF status = "Pending" THEN "Completed" ELSE "Pending"

store_put(store, k, task) ==
  [i \in (DOMAIN store) \cup {k} |-> IF i = k THEN task ELSE store[i]]

store_del(store, k) == [i \in (DOMAIN store) \ {k} |-> store[i]]

(* ------------------------ inputs ---------------------------------------- *)
T100 == Rep(97, MaxTitleLen)
(* "", FF NBSP, SPACE "a" TAB *)
TitleInputs == {<<>>, <<12, 160>>, <<32, 97, 9>>}
DescInputs == {<<>>, <<100>>}

(* "", whitespace only (SPACE TAB FF), "a" in IDEOGRAPHIC SPACE and CR,    *)
(* 100 letters in FF and NEL, 99 letters + SPACE + "b" in TAB and NBSP     *)
LongTitleInputs ==
  { <<>>, <<32, 9, 12>>, <<12288, 97, 13>>,
    <<12>> \o T100 \o <<133>>,
    <<9>> \o Rep(97, MaxTitleLen - 1) \o <<32, 98, 160>> }
D500 == Rep(100, MaxDescriptionLen)
LongDescInputs ==
  { <<>>, <<32>>, D500, D500 \o <<101>> }

IdInputs(cap) == 0..(cap + 1)

(* ------------------------ state ----------------------------------------- *)
EmptyFrame == [task_id |-> 0, title_in |-> <<>>, new_title |-> <<>>,
               warning |-> NoWarning]

Blank == [op |-> "start", outcome |-> "none", id |-> 0,
          title_in |-> <<>>, desc_in |-> <<>>,
          twarn |-> NoWarning, dwarn |-> NoWarning,
          listing |-> <<>>, before |-> "none", orig |-> "none"]

Init ==
  /\ task_store = <<>>
  /\ next_task_id = 1
  /\ pc = "menu"
  /\ frame = EmptyFrame
  /\ out = Blank
  /\ issued = <<>>
  /\ deleted = {}

(* ------------------------ add_task -------------------------------------- *)
add_task_begin(cap) ==
  /\ pc = "menu"
  /\ next_task_id <= cap
  /\ pc' = "add_title"
  /\ frame' = EmptyFrame
  /\ UNCHANGED <<task_store, next_task_id, out, issued, deleted>>

(* mutant: a rejected title still consumes an id *)
add_task_title_consume(T) ==
  /\ pc = "add_title"
  /\ \E raw \in T :
       LET title_input == strip(raw)
           v == validate_title(title_input)
       IN IF v.is_none
            THEN /\ out' = [Blank EXCEPT !.op = "add", !.outcome = "InvalidTitle",
                                         !.title_in = raw, !.twarn = v.warning]
                 /\ next_task_id' = next_task_id + 1
                 /\ UNCHANGED <<task_store, pc, frame, issued, deleted>>
            ELSE /\ frame' = [frame EXCEPT !.title_in = raw, !.new_title = v.title,
                                           !.warning = v.warning]
                 /\ pc' = "add_desc"
                 /\ UNCHANGED <<task_store, next_task_id, out, issued, deleted>>

add_task_title(T) ==
  /\ pc = "add_title"
  /\ \E raw \in T :
       LET title_input == strip(raw)
           v == validate_title(title_input)
       IN IF v.is_none
            THEN /\ out' = [Blank EXCEPT !.op = "add", !.outcome = "InvalidTitle",
                                         !.title_in = raw, !.twarn = v.warning]
                 /\ UNCHANGED <<task_store, next_task_id, pc, frame, issued, deleted>>
            ELSE /\ frame' = [frame EXCEPT !.title_in = raw, !.new_title = v.title,
                                           !.warning = v.warning]
                 /\ pc' = "add_desc"
                 /\ UNCHANGED <<task_store, next_task_id, out, issued, deleted>>

(* mutant: the new id is one more than the largest stored key *)
add_task_description_maxkey(D) ==
  /\ pc = "add_desc"
  /\ \E description_input \in D :
       LET v == validate_description(description_input)
           new_id == IF task_store = <<>> THEN 1
                     ELSE SetMax(DOMAIN task_store) + 1
           task == [id |-> new_id, title |-> frame.new_title,
                    description |-> v.description, status |-> "Pending"]
       IN /\ task_store' = store_put(task_store, new_id, task)
          /\ next_task_id' = new_id + 1
          /\ issued' = Append(issued, task.id)
          /\ out' = [Blank EXCEPT !.op = "add", !.outcome = "ok", !.id = task.id,
                                  !.title_in = frame.title_in,
                                  !.desc_in = description_input,
                                  !.twarn = frame.warning, !.dwarn = v.warning]
  /\ pc' = "menu"
  /\ frame' = EmptyFrame
  /\ UNCHANGED deleted

(* mutant: the counter is incremented before the task is stored *)
add_task_description_preinc(D) ==
  /\ pc = "add_desc"
  /\ \E description_input \in D :
       LET v == validate_description(description_input)
           task == [id |-> next_task_id, title |-> frame.new_title,
                    description |-> v.description, status |-> "Pending"]
       IN /\ task_store' = store_put(task_store, next_task_id + 1, task)
          /\ next_task_id' = next_task_id + 1
          /\ issued' = Append(issued, task.id)
          /\ out' = [Blank EXCEPT !.op = "add", !.outcome = "ok", !.id = task.id,
                                  !.title_in = frame.title_in,
                                  !.desc_in = description_input,
                                  !.twarn = frame.warning, !.dwarn = v.warning]
  /\ pc' = "menu"
  /\ frame' = EmptyFrame
  /\ UNCHANGED deleted

add_task_description(D) ==
  /\ pc = "add_desc"
  /\ \E description_input \in D :
       LET v == validate_description(description_input)
           task == [id |-> next_task_id, title |-> frame.new_title,
                    description |-> v.description, status |-> "Pending"]
       IN /\ task_store' = store_put(task_store, next_task_id, task)
          /\ next_task_id' = next_task_id + 1
          /\ issued' = Append(issued, task.id)
          /\ out' = [Blank EXCEPT !.op = "add", !.outcome = "ok", !.id = task.id,
                                  !.title_in = frame.title_in,
                                  !.desc_in = description_input,
                                  !.twarn = frame.warning, !.dwarn = v.warning]
  /\ pc' = "menu"
  /\ frame' = EmptyFrame
  /\ UNCHANGED deleted

(* ------------------------ view_tasks ------------------------------------ *)
view_tasks ==
  /\ pc = "menu"
  /\ out' = [Blank EXCEPT !.op = "view", !.outcome = "ok",
                          !.listing = IF task_store = <<>> THEN <<>>
                                      ELSE printed_tasks(task_store)]
  /\ UNCHANGED <<task_store, next_task_id, pc, frame, issued, deleted>>

(* ------------------------ update_task ----------------------------------- *)
update_task(I) ==
  /\ pc = "menu"
  /\ \/ /\ out' = [Blank EXCEPT !.op = "update", !.outcome = "ValueError"]
        /\ UNCHANGED <<task_store, next_task_id, pc, frame, issued, deleted>>
     \/ \E task_id \in I :
          IF find_task(task_store, task_id) = <<>>
            THEN /\ out' = [Blank EXCEPT !.op = "update", !.outcome = "NotFound",
                                         !.id = task_id]
                 /\ UNCHANGED <<task_store, next_task_id, pc, frame, issued, deleted>>
            ELSE /\ pc' = "upd_title"
                 /\ frame' = [EmptyFrame EXCEPT !.task_id = task_id]
                 /\ UNCHANGED <<task_store, next_task_id, out, issued, deleted>>

update_task_title(T) ==
  /\ pc = "upd_title"
  /\ \E raw \in T :
       LET title_input == strip(raw)
           task == task_store[frame.task_id]
           v == validate_title(title_input)
       IN IF title_input = <<>>
            THEN /\ frame' = [frame EXCEPT !.title_in = raw, !.new_title = task.title,
                                           !.warning = NoWarning]
                 /\ pc' = "upd_desc"
                 /\ UNCHANGED <<task_store, next_task_id, out, issued, deleted>>
            ELSE IF v.is_none
                   THEN /\ out' = [Blank EXCEPT !.op = "update",
                                                !.outcome = "InvalidTitle",
                                                !.id = frame.task_id,
                                                !.title_in = raw, !.twarn = v.warning]
                        /\ UNCHANGED <<task_store, next_task_id, pc, frame,
                                       issued, deleted>>
                   ELSE /\ frame' = [frame EXCEPT !.title_in = raw,
                                                  !.new_title = v.title,
                                                  !.warning = v.warning]
                        /\ pc' = "upd_desc"
                        /\ UNCHANGED <<task_store, next_task_id, out, issued, deleted>>

(* mutant: the task record is rebuilt with the default status *)
update_task_description_reset(D) ==
  /\ pc = "upd_desc"
  /\ \E description_input \in D :
       LET task == task_store[frame.task_id]
           v == validate_description(description_input)
           new_description == IF description_input = <<>> THEN task.description
                              ELSE v.description
           dwarn == IF description_input = <<>> THEN NoWarning ELSE v.warning
       IN /\ task_store' = [task_store EXCEPT ![frame.task_id] =
                              [id |-> task.id, title |-> frame.new_title,
                               description |-> new_description,
                               status |-> "Pending"]]
          /\ out' = [Blank EXCEPT !.op = "update", !.outcome = "ok",
                                  !.id = frame.task_id,
                                  !.title_in = frame.title_in,
                                  !.desc_in = description_input,
                                  !.twarn = frame.warning, !.dwarn = dwarn]
  /\ pc' = "menu"
  /\ frame' = EmptyFrame
  /\ UNCHANGED <<next_task_id, issued, deleted>>

(* mutant: the description is stripped before the emptiness test *)
update_task_description_strip(D) ==
  /\ pc = "upd_desc"
  /\ \E description_input \in D :
       LET task == task_store[frame.task_id]
           v == validate_description(description_input)
           new_description == IF strip(description_input) = <<>>
                              THEN task.description ELSE v.description
           dwarn == IF strip(description_input) = <<>> THEN NoWarning
                    ELSE v.warning
       IN /\ task_store' = [task_store EXCEPT ![frame.task_id] =
                              [@ EXCEPT !.title = frame.new_title,
                                        !.description = new_description]]
          /\ out' = [Blank EXCEPT !.op = "update", !.outcome = "ok",
                                  !.id = frame.task_id,
                                  !.title_in = frame.title_in,
                                  !.desc_in = description_input,
                                  !.twarn = frame.warning, !.dwarn = dwarn]
  /\ pc' = "menu"
  /\ frame' = EmptyFrame
  /\ UNCHANGED <<next_task_id, issued, deleted>>

update_task_description(D) ==
  /\ pc = "upd_desc"
  /\ \E description_input \in D :
       LET task == task_store[frame.task_id]
           v == validate_description(description_input)
           new_description == IF description_input = <<>> THEN task.description
                              ELSE v.description
           dwarn == IF description_input = <<>> THEN NoWarning ELSE v.warning
       IN /\ task_store' = [task_store EXCEPT ![frame.task_id] =
                              [@ EXCEPT !.title = frame.new_title,
                                        !.description = new_description]]
          /\ out' = [Blank EXCEPT !.op = "update", !.outcome = "ok",
                                  !.id = frame.task_id,
                                  !.title_in = frame.title_in,
                                  !.desc_in = description_input,
                                  !.twarn = frame.warning, !.dwarn = dwarn]
  /\ pc' = "menu"
  /\ frame' = EmptyFrame
  /\ UNCHANGED <<next_task_id, issued, deleted>>

(* ------------------------ delete_task ----------------------------------- *)
(* mutant: deleting a task gives its id back to the counter *)
delete_task_reclaim(I) ==
  /\ pc = "menu"
  /\ \/ /\ out' = [Blank EXCEPT !.op = "delete", !.outcome = "ValueError"]
        /\ UNCHANGED <<task_store, deleted, next_task_id>>
     \/ \E task_id \in I :
          IF find_task(task_store, task_id) = <<>>
            THEN /\ out' = [Blank EXCEPT !.op = "delete", !.outcome = "NotFound",
                                         !.id = task_id]
                 /\ UNCHANGED <<task_store, deleted, next_task_id>>
            ELSE /\ task_store' = store_del(task_store, task_id)
                 /\ deleted' = deleted \cup {task_id}
                 /\ next_task_id' = next_task_id - 1
                 /\ out' = [Blank EXCEPT !.op = "delete", !.outcome = "ok",
                                         !.id = task_id]
  /\ UNCHANGED <<pc, frame, issued>>

delete_task(I) ==
  /\ pc = "menu"
  /\ \/ /\ out' = [Blank EXCEPT !.op = "delete", !.outcome = "ValueError"]
        /\ UNCHANGED <<task_store, deleted>>
     \/ \E task_id \in I :
          IF find_task(task_store, task_id) = <<>>
            THEN /\ out' = [Blank EXCEPT !.op = "delete", !.outcome = "NotFound",
                                         !.id = task_id]
                 /\ UNCHANGED <<task_store, deleted>>
            ELSE /\ task_store' = store_del(task_store, task_id)
                 /\ deleted' = deleted \cup {task_id}
                 /\ out' = [Blank EXCEPT !.op = "delete", !.outcome = "ok",
                                         !.id = task_id]
  /\ UNCHANGED <<next_task_id, pc, frame, issued>>

(* ------------------------ toggle_task_status ---------------------------- *)
toggle_task_status(I) ==
  /\ pc = "menu"
  /\ \/ /\ out' = [Blank EXCEPT !.op = "toggle", !.outcome = "ValueError"]
        /\ UNCHANGED task_store
     \/ \E task_id \in I :
          IF find_task(task_store, task_id) = <<>>
            THEN /\ out' = [Blank EXCEPT !.op = "toggle", !.outcome = "NotFound",
                                         !.id = task_id]
                 /\ UNCHANGED task_store
            ELSE LET task == task_store[task_id]
                 IN /\ task_store' = [task_store EXCEPT ![task_id] =
                                        [@ EXCEPT !.status = toggled(task.status)]]
                    /\ out' = [Blank EXCEPT
                                 !.op = "toggle", !.outcome = "ok", !.id = task_id,
                                 !.before = task.status,
                                 !.orig = IF /\ out.op = "toggle"
                                             /\ out.outcome = "ok"
                                             /\ out.id = task_id
                                          THEN out.before ELSE "none"]
  /\ UNCHANGED <<next_task_id, pc, frame, issued, deleted>>

(* ------------------------ main ------------------------------------------ *)
main_invalid_choice ==
  /\ pc = "menu"
  /\ out' = [Blank EXCEPT !.op = "menu", !.outcome = "InvalidChoice"]
  /\ UNCHANGED <<task_store, next_task_id, pc, frame, issued, deleted>>

main_exit ==
  /\ pc = "menu"
  /\ pc' = "exit"
  /\ UNCHANGED <<task_store, next_task_id, frame, out, issued, deleted>>

Next ==
  \/ add_task_begin(MaxTasks)
  \/ add_task_title(TitleInputs)
  \/ add_task_description(DescInputs)
  \/ view_tasks
  \/ update_task(IdInputs(MaxTasks))
  \/ update_task_title(TitleInputs)
  \/ update_task_description(DescInputs)
  \/ delete_task(IdInputs(MaxTasks))
  \/ toggle_task_status(IdInputs(MaxTasks))
  \/ main_invalid_choice
  \/ main_exit

Spec == Init /\ [][Next]_vars

NextText ==
  \/ add_task_begin(MaxTextTasks)
  \/ add_task_title(LongTitleInputs)
  \/ add_task_description(LongDescInputs)
  \/ view_tasks
  \/ update_task(IdInputs(MaxTextTasks))
  \/ update_task_title(LongTitleInputs)
  \/ update_task_description(LongDescInputs)
  \/ delete_task(IdInputs(MaxTextTasks))
  \/ toggle_task_status(IdInputs(MaxTextTasks))
  \/ main_invalid_choice
  \/ main_exit

SpecText == Init /\ [][NextText]_vars

(* ======================== properties ================================== *)

Statuses == {"Pending", "Completed"}

UpdateDone == pc = "upd_desc" /\ pc' = "menu"

(* C1: the k-th successful add_task is given id k (1, 2, 3, ... with no    *)
(* gaps), whatever else happened in between, and next_task_id moves only   *)
(* in the step that stores a new task, by exactly one.                     *)
C1_Inv ==
  /\ issued = [k \in 1..Len(issued) |-> k]
  /\ next_task_id = Len(issued) + 1
C1_Step ==
  next_task_id' # next_task_id =>
    /\ next_task_id' = next_task_id + 1
    /\ pc = "add_desc" /\ pc' = "menu"
    /\ Len(issued') = Len(issued) + 1
C1_SequentialIds == [](C1_Inv) /\ [][C1_Step]_vars
C1_Witness ==
  /\ out.op = "add" /\ out.outcome = "ok" /\ out.id = 4
  /\ deleted # {}

(* C2: once an id has been deleted, find_task on it finds nothing in every *)
(* later state, and no later add_task issues that id again.                *)
C2_Step ==
  \A i \in deleted :
    /\ find_task(task_store', i) = <<>>
    /\ Len(issued') > Len(issued) => issued'[Len(issued')] # i
C2_DeletedIdsRetired ==
  [](\A i \in deleted : find_task(task_store, i) = <<>>) /\ [][C2_Step]_vars
C2_Witness ==
  /\ out.op = "add" /\ out.outcome = "ok"
  /\ (out.id - 1) \in deleted

(* C3: a step that ends in the InvalidTitle or the NotFound outcome leaves *)
(* task_store and next_task_id exactly as they were.                       *)
C3_FailuresChangeNothing ==
  [][out'.outcome \in {"InvalidTitle", "NotFound"} =>
       /\ task_store' = task_store
       /\ next_task_id' = next_task_id]_vars
C3_Witness ==
  /\ out.op = "add" /\ out.outcome = "InvalidTitle"
  /\ pc = "add_title"
  /\ task_store # <<>>
  /\ deleted # {}

(* C4: a successful toggle leaves the task with the other of the two       *)
(* statuses, and a second toggle of the same id right after the first      *)
(* brings back the status the task had before the first.                   *)
C4_ToggleRoundTrip ==
  (out.op = "toggle" /\ out.outcome = "ok") =>
    /\ out.id \in DOMAIN task_store
    /\ out.before \in Statuses
    /\ task_store[out.id].status \in Statuses
    /\ task_store[out.id].status # out.before
    /\ out.orig # "none" => task_store[out.id].status = out.orig
C4_Witness ==
  /\ out.op = "toggle" /\ out.outcome = "ok"
  /\ out.orig = "Completed"

(* C5: the step that completes update_task keeps the task's id and status, *)
(* and with an empty title and an empty description entered it leaves      *)
(* task_store and next_task_id unchanged.                                  *)
C5_UpdateFrame ==
  [][UpdateDone =>
       /\ frame.task_id \in DOMAIN task_store'
       /\ DOMAIN task_store' = DOMAIN task_store
       /\ task_store'[frame.task_id].id = task_store[frame.task_id].id
       /\ task_store'[frame.task_id].status = task_store[frame.task_id].status
       /\ (out'.title_in = <<>> /\ out'.desc_in = <<>>) =>
            /\ task_store' = task_store
            /\ next_task_id' = next_task_id]_vars
C5_Witness ==
  /\ out.op = "update" /\ out.outcome = "ok"
  /\ out.title_in = <<>> /\ out.desc_in = <<>>
  /\ task_store[out.id].status = "Completed"
  /\ task_store[out.id].description # <<>>

(* C6: every stored title is non-empty and at most 100 characters long and *)
(* every stored description is at most 500 characters long.                *)
C6_LengthLimits ==
  \A k \in DOMAIN task_store :
    /\ task_store[k].title # <<>>
    /\ Len(task_store[k].title) <= MaxTitleLen
    /\ Len(task_store[k].description) <= MaxDescriptionLen
C6_Witness ==
  /\ out.op = "update" /\ out.outcome = "ok"
  /\ Len(strip(out.title_in)) > MaxTitleLen
  /\ Len(out.desc_in) > MaxDescriptionLen
  /\ Len(task_store[out.id].title) = MaxTitleLen
  /\ Len(task_store[out.id].description) = MaxDescriptionLen

(* C7: every key of task_store maps to a task whose id is that key, and    *)
(* next_task_id is greater than every key and every id ever issued,        *)
(* deleted ones included.                                                  *)
C7_KeysAndCounter ==
  /\ \A k \in DOMAIN task_store :
       task_store[k].id = k /\ k < next_task_id
  /\ \A i \in 1..Len(issued) : issued[i] < next_task_id
  /\ \A d \in deleted : d < next_task_id
C7_Witness ==
  /\ Cardinality(DOMAIN task_store) >= 2
  /\ deleted # {}
  /\ \A k \in DOMAIN task_store : k < SetMax(deleted)

(* C8 as stated: a description that is empty after stripping keeps the     *)
(* stored description, any other replaces it (cut to 500 characters).      *)
C8_Original ==
  [][UpdateDone =>
       task_store'[frame.task_id].description =
         IF strip(out'.desc_in) = <<>>
           THEN task_store[frame.task_id].description
           ELSE slice(out'.desc_in, MaxDescriptionLen)]_vars

(* C8 amended: only the empty string keeps the stored description; every   *)
(* non-empty input, whitespace-only included, replaces it unstripped with  *)
(* its first 500 characters.                                               *)
C8_EmptyStringKeeps ==
  [][UpdateDone =>
       task_store'[frame.task_id].description =
         IF out'.desc_in = <<>>
           THEN task_store[frame.task_id].description
           ELSE slice(out'.desc_in, MaxDescriptionLen)]_vars
C8_Witness ==
  /\ out.op = "update" /\ out.outcome = "ok"
  /\ out.desc_in = <<32>>
  /\ task_store[out.id].description = <<32>>

(* C9: a title longer than 100 characters after stripping is stored as the *)
(* first 100 characters of the stripped input, a description longer than   *)
(* 500 as its first 500 characters, each with its truncation warning, and  *)
(* no truncation warning is given for a value within its limit.            *)
C9_TruncateWithWarning ==
  (out.op \in {"add", "update"} /\ out.outcome = "ok") =>
    LET s == strip(out.title_in)
        d == out.desc_in
        t == task_store[out.id]
    IN /\ Len(s) > MaxTitleLen =>
            /\ t.title = SubSeq(s, 1, MaxTitleLen)
            /\ Len(t.title) = MaxTitleLen
            /\ out.twarn = TitleTruncatedMsg
       /\ Len(s) <= MaxTitleLen => out.twarn = NoWarning
       /\ Len(d) > MaxDescriptionLen =>
            /\ t.description = SubSeq(d, 1, MaxDescriptionLen)
            /\ out.dwarn = DescriptionTruncatedMsg
       /\ Len(d) <= MaxDescriptionLen => out.dwarn = NoWarning
C9_Witness ==
  /\ out.op = "add" /\ out.outcome = "ok"
  /\ Len(strip(out.title_in)) > MaxTitleLen
  /\ Len(out.desc_in) > MaxDescriptionLen
  /\ task_store[out.id].title[MaxTitleLen] = 32

(* C10: view_tasks prints each stored task exactly once, in strictly       *)
(* ascending id order, prints no task for an empty store, and changes      *)
(* neither task_store nor next_task_id.                                    *)
C10_Listing ==
  out.op = "view" =>
    LET L == out.listing
    IN /\ Len(L) = Cardinality(DOMAIN task_store)
       /\ {L[i].id : i \in 1..Len(L)} = DOMAIN task_store
       /\ \A i \in 1..Len(L) : \A j \in 1..Len(L) : i < j => L[i].id < L[j].id
       /\ \A i \in 1..Len(L) :
            /\ L[i].title = task_store[L[i].id].title
            /\ L[i].status = task_store[L[i].id].status
            /\ L[i].description = shown_description(task_store[L[i].id])
       /\ task_store = <<>> => L = <<>>
C10_ViewSortedReadOnly ==
  [](C10_Listing) /\
  [][out'.op = "view" =>
       /\ task_store' = task_store
       /\ next_task_id' = next_task_id]_vars
C10_Witness ==
  /\ out.op = "view"
  /\ DOMAIN task_store = {1, 3, 4}
====
